---- MODULE Spec2Model ----
(***************************************************************************)
(* Model of schedule/schedule.py: business-day arithmetic, calendar-aware  *)
(* date shifting, epoch and string conversions and the timeit decorator.   *)
(*                                                                         *)
(* A datetime is a record [year, month, day, secs, us]: the civil date,    *)
(* the second of the day and the microsecond.  A date is [year, month,     *)
(* day].  timedelta(days = n) arithmetic goes through the proleptic        *)
(* Gregorian ordinal, as datetime does.                                    *)
(***************************************************************************)
EXTENDS Integers, Sequences, FiniteSets, TLC

VARIABLES inp, op, out

\* State of the timeit decorator: the process-wide flag of the garbage
\* collector, the active calls of decorated functions (innermost last), and
\* the outcome of the call that has just finished (NoCall in any state that
\* is not entered by the end of a call).
VARIABLES gc_enabled, frames, done

vars == <<inp, op, out, gc_enabled, frames, done>>

timeit_vars == <<gc_enabled, frames, done>>

NoCall == [outcome |-> "none"]

\* No decorated function is called.
TimeitIdle ==
    /\ gc_enabled = TRUE
    /\ frames = <<>>
    /\ done = NoCall

(***************************************************************************)
(* Calendar arithmetic of the datetime type                                *)
(***************************************************************************)

is_leap(year) == year % 4 = 0 /\ (year % 100 # 0 \/ year % 400 = 0)

days_before_year(year) ==
    LET y == year - 1
    IN  y * 365 + (y \div 4) - (y \div 100) + (y \div 400)

DAYS_IN_MONTH == <<31, 28, 31, 30, 31, 30, 31, 31, 30, 31, 30, 31>>

days_in_month(year, month) ==
    IF month = 2 /\ is_leap(year) THEN 29 ELSE DAYS_IN_MONTH[month]

\* Days of the year before the first of each month of a common year
DAYS_BEFORE_MONTH == <<0, 31, 59, 90, 120, 151, 181, 212, 243, 273, 304, 334>>

days_before_month(year, month) ==
    DAYS_BEFORE_MONTH[month] + (IF month > 2 /\ is_leap(year) THEN 1 ELSE 0)

ymd2ord(year, month, day) ==
    days_before_year(year) + days_before_month(year, month) + day

\* Month of the 0-based day-of-year n, from an estimate of it that is
\* exact or one too large.
month_of_yday(year, n, month) ==
    IF days_before_month(year, month) > n THEN month - 1 ELSE month

ord2ymd(ordinal) ==
    LET n0   == ordinal - 1
        n400 == n0 \div 146097
        r400 == n0 % 146097
        n100 == r400 \div 36524
        r100 == r400 % 36524
        n4   == r100 \div 1461
        r4   == r100 % 1461
        n1   == r4 \div 365
        n    == r4 % 365
        year == n400 * 400 + 1 + n100 * 100 + n4 * 4 + n1
    IN  IF n1 = 4 \/ n100 = 4
        THEN [year |-> year - 1, month |-> 12, day |-> 31]
        ELSE LET month == month_of_yday(year, n, (n + 50) \div 32)
             IN  [year |-> year, month |-> month,
                  day |-> n - days_before_month(year, month) + 1]

toordinal(dt) == ymd2ord(dt.year, dt.month, dt.day)

\* date.weekday(): Monday is 0, Sunday is 6.
weekday(dt) == (toordinal(dt) + 6) % 7

\* datetime.date()
date_of(dt) == [year |-> dt.year, month |-> dt.month, day |-> dt.day]

\* value + timedelta(days = n): the civil date moves, the time of day stays.
add_days(dt, n) ==
    LET ymd == ord2ymd(toordinal(dt) + n)
    IN  [dt EXCEPT !.year = ymd.year, !.month = ymd.month, !.day = ymd.day]

\* datetime.combine(aux, datetime.min.time())
at_midnight(dt) == [dt EXCEPT !.secs = 0, !.us = 0]

\* a <= b on datetimes
dt_le(a, b) ==
    LET oa == toordinal(a)
        ob == toordinal(b)
    IN  \/ oa < ob
        \/ oa = ob /\ a.secs < b.secs
        \/ oa = ob /\ a.secs = b.secs /\ a.us <= b.us

dt_lt(a, b) == dt_le(a, b) /\ a # b

(***************************************************************************)
(* Calendar engine                                                         *)
(***************************************************************************)

\* holidays is None or a dict from years to collections of dates: a record
\* [is_none, dict], dict a function from a set of years to sets of dates.
\* NoHolidays is the default argument, None.
NoHolidays == [is_none |-> TRUE, dict |-> <<>>]

is_bussines_day_sat(actual_day, holidays) ==
    IF weekday(actual_day) > 5 THEN FALSE
    ELSE IF ~holidays.is_none /\ DOMAIN holidays.dict # {}
            /\ actual_day.year \in DOMAIN holidays.dict
         THEN date_of(actual_day) \notin holidays.dict[actual_day.year]
         ELSE TRUE

is_bussines_day(actual_day, holidays) ==
    IF weekday(actual_day) > 4 THEN FALSE
    ELSE IF ~holidays.is_none /\ DOMAIN holidays.dict # {}
            /\ actual_day.year \in DOMAIN holidays.dict
         THEN date_of(actual_day) \notin holidays.dict[actual_day.year]
         ELSE TRUE

RECURSIVE prev_loop(_)
prev_loop(new_value) ==
    IF ~is_bussines_day(new_value, NoHolidays)
    THEN prev_loop(add_days(new_value, -1))
    ELSE new_value

get_prev_business_day_keep_any(value, keep) ==
    IF keep THEN value
    ELSE prev_loop(add_days(value, -1))

get_prev_business_day(value, keep) ==
    IF keep /\ is_bussines_day(value, NoHolidays) THEN value
    ELSE prev_loop(add_days(value, -1))

RECURSIVE next_loop(_)
next_loop(new_value) ==
    IF ~is_bussines_day(new_value, NoHolidays)
    THEN next_loop(add_days(new_value, 1))
    ELSE new_value

get_next_business_day_one_step(value, keep) ==
    IF keep /\ is_bussines_day(value, NoHolidays) THEN value
    ELSE add_days(value, 1)

get_next_business_day(value, keep) ==
    IF keep /\ is_bussines_day(value, NoHolidays) THEN value
    ELSE next_loop(add_days(value, 1))

RECURSIVE between_loop(_, _, _)
between_loop(aux, end, array_dates) ==
    IF dt_le(aux, end)
    THEN between_loop(add_days(aux, 1), end,
                      IF weekday(aux) <= 4
                      THEN Append(array_dates, at_midnight(aux))
                      ELSE array_dates)
    ELSE array_dates

get_business_days_between(start, end) ==
    between_loop(add_days(start, 1), end, <<>>)

(***************************************************************************)
(* Inputs of the calendar engine                                           *)
(***************************************************************************)

\* Number of consecutive calendar days after 2022-12-23 that inputs range
\* over (the window spans two weekends and the change of year).
MaxOffset == 13

TimesOfDay == {0, 43200}

Days ==
    {ord2ymd(ymd2ord(2022, 12, 23) + k) : k \in 0..MaxOffset}

Datetimes ==
    {[year |-> d.year, month |-> d.month, day |-> d.day, secs |-> s, us |-> 0] :
        d \in Days, s \in TimesOfDay}

HolidayDates ==
    {[year |-> 2022, month |-> 12, day |-> 27],
     [year |-> 2023, month |-> 1, day |-> 2]}

HolidayYears == {2022, 2023}

HolidayInputs ==
    {NoHolidays} \cup
    {[is_none |-> FALSE, dict |-> h] :
        h \in UNION {[Y -> SUBSET HolidayDates] : Y \in SUBSET HolidayYears}}

CalInputs ==
    {[fn |-> "is_bussines_day", actual_day |-> d, holidays |-> h] :
        d \in Datetimes, h \in HolidayInputs}
    \cup
    {[fn |-> f, value |-> d, keep |-> k] :
        f \in {"get_prev_business_day", "get_next_business_day"},
        d \in Datetimes, k \in BOOLEAN}
    \cup
    {[fn |-> "get_business_days_between", start |-> s, end |-> e] :
        s \in Datetimes, e \in Datetimes}

InitCal ==
    /\ inp \in CalInputs
    /\ op = "start"
    /\ out = <<>>
    /\ TimeitIdle

IsBusinessDay ==
    /\ op = "start"
    /\ inp.fn = "is_bussines_day"
    /\ op' = "is_bussines_day"
    /\ out' = is_bussines_day(inp.actual_day, inp.holidays)
    /\ UNCHANGED <<inp, timeit_vars>>

GetPrevBusinessDay ==
    /\ op = "start"
    /\ inp.fn = "get_prev_business_day"
    /\ op' = "get_prev_business_day"
    /\ out' = get_prev_business_day(inp.value, inp.keep)
    /\ UNCHANGED <<inp, timeit_vars>>

GetNextBusinessDay ==
    /\ op = "start"
    /\ inp.fn = "get_next_business_day"
    /\ op' = "get_next_business_day"
    /\ out' = get_next_business_day(inp.value, inp.keep)
    /\ UNCHANGED <<inp, timeit_vars>>

GetBusinessDaysBetween ==
    /\ op = "start"
    /\ inp.fn = "get_business_days_between"
    /\ op' = "get_business_days_between"
    /\ out' = get_business_days_between(inp.start, inp.end)
    /\ UNCHANGED <<inp, timeit_vars>>

NextCal ==
    \/ IsBusinessDay
    \/ GetPrevBusinessDay
    \/ GetNextBusinessDay
    \/ GetBusinessDaysBetween

SpecCal == InitCal /\ [][NextCal]_vars

(***************************************************************************)
(* Properties of the calendar engine                                       *)
(***************************************************************************)

\* 2023-05-20 is a Saturday (tests/test_schedule.py): a day is a Saturday
\* or Sunday iff it lies 0 or 1 days after it, modulo a week.
OrdIsSatOrSun(ordinal) == (ordinal - ymd2ord(2023, 5, 20)) % 7 \in {0, 1}

IsSatOrSun(dt) == OrdIsSatOrSun(toordinal(dt))

Listed(d, h) ==
    /\ ~h.is_none
    /\ d.year \in DOMAIN h.dict
    /\ date_of(d) \in h.dict[d.year]

\* C1: is_bussines_day is false on Saturday and Sunday; on Monday-Friday it
\* is true unless the holiday mapping has an entry for the day's year that
\* contains the day's date.  Holidays only turn true into false, and an
\* absent or empty mapping behaves as no holidays.
C1_IsBusinessDay ==
    op = "is_bussines_day" =>
        LET d == inp.actual_day
            h == inp.holidays
        IN  /\ out = (~IsSatOrSun(d) /\ ~Listed(d, h))
            /\ (out => is_bussines_day(d, NoHolidays))
            /\ (h.is_none \/ DOMAIN h.dict = {}) =>
                   out = is_bussines_day(d, NoHolidays)

C1_Witness ==
    /\ op = "is_bussines_day"
    /\ ~IsSatOrSun(inp.actual_day)
    /\ Listed(inp.actual_day, inp.holidays)
    /\ out = FALSE

\* Every calendar day strictly between the ordinals lo and hi is a Saturday
\* or Sunday.
OnlyWeekendBetween(lo, hi) ==
    \A o \in (lo + 1)..(hi - 1) : OrdIsSatOrSun(o)

SameTimeOfDay(a, b) == a.secs = b.secs /\ a.us = b.us

\* C2: get_prev_business_day(d, keep=True) returns d when d is a business
\* day; otherwise the result is the latest Monday-Friday day strictly before
\* d: every day strictly between the result and d is a Saturday or Sunday.
C2_PrevBusinessDay ==
    op = "get_prev_business_day" =>
        LET d == inp.value
        IN  IF inp.keep /\ ~IsSatOrSun(d)
            THEN out = d
            ELSE /\ ~IsSatOrSun(out)
                 /\ toordinal(out) < toordinal(d)
                 /\ OnlyWeekendBetween(toordinal(out), toordinal(d))

C2_Witness ==
    /\ op = "get_prev_business_day"
    /\ inp.keep
    /\ IsSatOrSun(inp.value)
    /\ toordinal(out) = toordinal(inp.value) - 2

\* C3: get_next_business_day(d, keep=True) returns d when d is a business
\* day; otherwise the result is the earliest Monday-Friday day strictly
\* after d: every day strictly between d and the result is a Saturday or
\* Sunday, so a Friday maps to the following Monday.
C3_NextBusinessDay ==
    op = "get_next_business_day" =>
        LET d == inp.value
        IN  IF inp.keep /\ ~IsSatOrSun(d)
            THEN out = d
            ELSE /\ ~IsSatOrSun(out)
                 /\ toordinal(out) > toordinal(d)
                 /\ OnlyWeekendBetween(toordinal(d), toordinal(out))

C3_Witness ==
    /\ op = "get_next_business_day"
    /\ ~inp.keep
    /\ (toordinal(inp.value) - ymd2ord(2023, 5, 20)) % 7 = 6
    /\ toordinal(out) = toordinal(inp.value) + 3

RECURSIVE WeekdaysIn(_, _)
WeekdaysIn(lo, hi) ==
    IF lo > hi THEN <<>>
    ELSE (IF OrdIsSatOrSun(lo) THEN <<>>
          ELSE LET ymd == ord2ymd(lo)
               IN  <<[year |-> ymd.year, month |-> ymd.month, day |-> ymd.day,
                      secs |-> 0, us |-> 0]>>)
         \o WeekdaysIn(lo + 1, hi)

\* C4: get_business_days_between(start, end) returns, ascending and without
\* duplicates, exactly the Monday-Friday days strictly after start's day and
\* up to and including end's day, each at midnight, whatever the times of
\* day of start and end.
C4_BusinessDaysBetween ==
    op = "get_business_days_between" =>
        out = WeekdaysIn(toordinal(inp.start) + 1, toordinal(inp.end))

(***************************************************************************)
(* Date shifting                                                           *)
(***************************************************************************)

\* The outcome of a call: a returned value or a raised exception.
Return(v) == [raised |-> FALSE, value |-> v]

Raise(type, message) == [raised |-> TRUE, exc |-> type, msg |-> message]

\* datetime(year, month, day): the constructor validates year, month and
\* day in this order and raises ValueError.
datetime_new(year, month, day) ==
    IF year < 1 \/ year > 9999
    THEN Raise("ValueError", "year is out of range")
    ELSE IF month < 1 \/ month > 12
    THEN Raise("ValueError", "month must be in 1..12")
    ELSE IF day < 1 \/ day > days_in_month(year, month)
    THEN Raise("ValueError", "day is out of range for month")
    ELSE Return([year |-> year, month |-> month, day |-> day,
                 secs |-> 0, us |-> 0])

\* r + timedelta(days = n) for the outcome r of a constructor call: an
\* exception of the constructor propagates, and a result outside the years
\* 1..9999 raises OverflowError.
plus_timedelta(r, n) ==
    IF r.raised THEN r
    ELSE LET o == toordinal(r.value) + n
         IN  IF o < 1 \/ o > ymd2ord(9999, 12, 31)
             THEN Raise("OverflowError", "date value out of range")
             ELSE Return(add_days(r.value, n))

\* x or 12
or12(x) == IF x = 0 THEN 12 ELSE x

up_date_no_carry(ref, days, months, years) ==
    IF months = 0 /\ years = 0 /\ days = 0 THEN Return(ref)
    ELSE
    LET new_month == ref.month + months
        new_year  == ref.year + years
        first == plus_timedelta(
                     datetime_new(new_year + (new_month \div 12),
                                  or12(new_month % 12), ref.day), days)
    IN  IF first.raised /\ first.exc = "ValueError"
        THEN IF first.msg = "day is out of range for month"
             THEN plus_timedelta(
                      datetime_new(new_year + ((new_month - 1) \div 12),
                                   or12(new_month + (1 % 12)), 1), days)
             ELSE first
        ELSE first

up_date(ref, days, months, years) ==
    IF months = 0 /\ years = 0 /\ days = 0 THEN Return(ref)
    ELSE
    LET new_month == ref.month + months
        new_year  == ref.year + years
        \* math.floor((new_month - 1) / 12) is the floor division
        first == plus_timedelta(
                     datetime_new(new_year + ((new_month - 1) \div 12),
                                  or12(new_month % 12), ref.day), days)
    IN  IF first.raised /\ first.exc = "ValueError"
        THEN IF first.msg = "day is out of range for month"
             THEN plus_timedelta(
                      datetime_new(new_year + ((new_month - 1) \div 12),
                                   or12(new_month + (1 % 12)), 1), days)
             ELSE first
        ELSE first

\* Largest month, year and day offset of the inputs, in absolute value.
MaxMonths == 14
MaxYears == 1
MaxDayShift == 1

RefDates ==
    {[year |-> y, month |-> mo, day |-> d, secs |-> s, us |-> 0] :
        y \in {2023, 2024}, mo \in 1..12, d \in {1, 28, 29, 30, 31},
        s \in {0, 37800}}

UpInputs ==
    {[fn |-> "up_date", ref |-> r, days |-> dd, months |-> mm, years |-> yy] :
        r \in {x \in RefDates : x.day <= days_in_month(x.year, x.month)},
        dd \in -MaxDayShift..MaxDayShift,
        mm \in -MaxMonths..MaxMonths,
        yy \in -MaxYears..MaxYears}

InitUp ==
    /\ inp \in UpInputs
    /\ op = "start"
    /\ out = <<>>
    /\ TimeitIdle

UpDate ==
    /\ op = "start"
    /\ inp.fn = "up_date"
    /\ op' = "up_date"
    /\ out' = up_date(inp.ref, inp.days, inp.months, inp.years)
    /\ UNCHANGED <<inp, timeit_vars>>

NextUp == UpDate

SpecUp == InitUp /\ [][NextUp]_vars

\* The month and year that the offsets of the input lead to.
TargetMonth == ((inp.ref.month + inp.months - 1) % 12) + 1

TargetYear ==
    inp.ref.year + inp.years + ((inp.ref.month + inp.months - 1) \div 12)

SomeOffset == inp.days # 0 \/ inp.months # 0 \/ inp.years # 0

DayExistsInTarget == inp.ref.day <= days_in_month(TargetYear, TargetMonth)

\* C5: with offsets not all zero and the reference day present in the target
\* month, up_date returns day d of month ((m + months - 1) mod 12) + 1 of
\* year y + years + floor((m + months - 1) / 12), moved by `days` calendar
\* days; the month is in 1..12 and overflow is carried into the year, so
\* the count of months since year 0 moves by months + 12 * years.
C5_UpDate ==
    (op = "up_date" /\ SomeOffset /\ DayExistsInTarget) =>
        /\ TargetMonth \in 1..12
        /\ TargetYear * 12 + (TargetMonth - 1) =
               inp.ref.year * 12 + (inp.ref.month - 1)
               + inp.months + 12 * inp.years
        /\ ~out.raised
        /\ toordinal(out.value) =
               ymd2ord(TargetYear, TargetMonth, inp.ref.day) + inp.days
        /\ out.value.secs = 0 /\ out.value.us = 0

C5_Witness ==
    /\ op = "up_date"
    /\ inp.ref.month + inp.months = 0
    /\ inp.years = 1
    /\ inp.days = -1
    /\ ~out.raised
    /\ out.value.year = inp.ref.year
    /\ out.value.month = 12

\* C6: when the reference day does not exist in the target month, up_date
\* does not raise and returns day 1 of the month after the target month,
\* moved by the day offset.
C6_UpDateFallback ==
    (op = "up_date" /\ SomeOffset /\ ~DayExistsInTarget) =>
        /\ ~out.raised
        /\ toordinal(out.value) =
               ymd2ord(TargetYear, TargetMonth,
                       days_in_month(TargetYear, TargetMonth)) + 1 + inp.days

(***************************************************************************)
(* Binary floating point.  A non-negative double is a record [int, frac]:  *)
(* the bits of its integer part, most significant first and without        *)
(* leading zeros, and the bits of its fraction, the first one worth 1/2.   *)
(* Every operation is the exact operation followed by rounding to 53       *)
(* significant bits, ties to even.                                         *)
(***************************************************************************)

Mantissa == 53

RECURSIVE bit_length(_)
bit_length(n) == IF n = 0 THEN 0 ELSE 1 + bit_length(n \div 2)

\* The bits of the integer n, most significant first.
int_bits(n) ==
    LET len == bit_length(n)
    IN  [i \in 1..len |-> (n \div (2 ^ (len - i))) % 2]

\* The w low bits of the integer n, most significant first.
fixed_bits(n, w) == [i \in 1..w |-> (n \div (2 ^ (w - i))) % 2]

\* The integer that the bits b stand for.
RECURSIVE bits_int(_)
bits_int(b) ==
    IF Len(b) = 0 THEN 0
    ELSE IF Len(b) = 1 THEN b[1]
    ELSE LET h == Len(b) \div 2
         IN  bits_int(SubSeq(b, 1, h)) * (2 ^ (Len(b) - h))
             + bits_int(SubSeq(b, h + 1, Len(b)))

leading_zeros(b) ==
    LET ones == {i \in 1..Len(b) : b[i] = 1}
    IN  IF ones = {} THEN Len(b)
        ELSE (CHOOSE i \in ones : \A j \in ones : i <= j) - 1

strip_zeros(b) == SubSeq(b, leading_zeros(b) + 1, Len(b))

all_zero(b) == \A i \in 1..Len(b) : b[i] = 0

\* b + 1 on a bit string of fixed length, with the carry out of it.
incr(b) ==
    LET zeros == {i \in 1..Len(b) : b[i] = 0}
    IN  IF zeros = {} THEN [bits |-> [i \in 1..Len(b) |-> 0], carry |-> 1]
        ELSE LET k == CHOOSE i \in zeros : \A j \in zeros : j <= i
             IN  [bits |-> [i \in 1..Len(b) |->
                               IF i < k THEN b[i] ELSE IF i = k THEN 1 ELSE 0],
                  carry |-> 0]

\* Round the exact value x to a double.
fl_round(x) ==
    LET p == IF x.int # <<>> THEN Mantissa - Len(x.int)
             ELSE leading_zeros(x.frac) + Mantissa
    IN  IF Len(x.frac) <= p THEN x
        ELSE
        LET kept  == SubSeq(x.frac, 1, p)
            tail  == SubSeq(x.frac, p + 1, Len(x.frac))
            half  == tail[1] = 1 /\ all_zero(Tail(tail))
            above == tail[1] = 1 /\ ~all_zero(Tail(tail))
            all   == x.int \o kept
            odd   == all # <<>> /\ all[Len(all)] = 1
            r     == incr(all)
            upped == IF r.carry = 1 THEN <<1>> \o r.bits ELSE r.bits
            n     == Len(upped) - p
        IN  IF above \/ (half /\ odd)
            THEN [int |-> strip_zeros(SubSeq(upped, 1, n)),
                  frac |-> SubSeq(upped, n + 1, Len(upped))]
            ELSE [int |-> x.int, frac |-> kept]

\* The bits of b times c plus the carry that enters at the least significant
\* bit, and the carry out of the most significant one.  The bits are taken
\* ten at a time, so that every intermediate value is a small integer.
RECURSIVE mul_bits(_, _, _)
mul_bits(b, c, carry) ==
    IF Len(b) = 0 THEN [bits |-> <<>>, carry |-> carry]
    ELSE LET w    == IF Len(b) < 10 THEN Len(b) ELSE 10
             v    == c * bits_int(SubSeq(b, Len(b) - w + 1, Len(b))) + carry
             rest == mul_bits(SubSeq(b, 1, Len(b) - w), c, v \div (2 ^ w))
         IN  [bits |-> rest.bits \o fixed_bits(v % (2 ^ w), w),
              carry |-> rest.carry]

\* x * c for a double x and a small integer c
fl_mul(x, c) ==
    LET r   == mul_bits(x.int \o x.frac, c, 0)
        all == int_bits(r.carry) \o r.bits
        n   == Len(all) - Len(x.frac)
    IN  fl_round([int |-> strip_zeros(SubSeq(all, 1, n)),
                  frac |-> SubSeq(all, n + 1, Len(all))])

\* How many bits a division by q takes at a time: at most ten, and few
\* enough for a remainder followed by that many bits to be a small integer.
chunk(q) ==
    CHOOSE w \in 1..10 :
        /\ q <= 2147483647 \div (2 ^ w)
        /\ \A v \in 1..10 : q <= 2147483647 \div (2 ^ v) => v <= w

\* Quotient bits and remainder of the bit string b, preceded by the
\* remainder rem, divided by q.
RECURSIVE long_div(_, _, _)
long_div(b, q, rem) ==
    IF Len(b) = 0 THEN [quot |-> <<>>, rem |-> rem]
    ELSE LET w    == IF Len(b) < chunk(q) THEN Len(b) ELSE chunk(q)
             v    == rem * (2 ^ w) + bits_int(SubSeq(b, 1, w))
             rest == long_div(SubSeq(b, w + 1, Len(b)), q, v % q)
         IN  [quot |-> fixed_bits(v \div q, w) \o rest.quot, rem |-> rest.rem]

\* The first k bits of the fraction r / q (r < q), and what is left of r.
RECURSIVE frac_bits(_, _, _)
frac_bits(r, q, k) ==
    IF k = 0 THEN [bits |-> <<>>, rem |-> r]
    ELSE LET w    == IF k < chunk(q) THEN k ELSE chunk(q)
             v    == r * (2 ^ w)
             rest == frac_bits(v % q, q, k - w)
         IN  [bits |-> fixed_bits(v \div q, w) \o rest.bits, rem |-> rest.rem]

\* Number of zero bits that the fraction r / q starts with (0 < r < q).
RECURSIVE frac_zeros(_, _)
frac_zeros(r, q) == IF 2 * r >= q THEN 0 ELSE 1 + frac_zeros(2 * r, q)

\* n / q, correctly rounded, for the bit string n of an integer and a small
\* integer q.  The quotient is cut after the bits a double keeps, followed
\* by a bit for the next one and a bit telling whether anything is left.
fl_div(n, q) ==
    LET d  == long_div(n, q, 0)
        ip == strip_zeros(d.quot)
    IN  IF d.rem = 0 THEN [int |-> ip, frac |-> <<>>]
        ELSE
        LET p == IF ip # <<>> THEN Mantissa - Len(ip)
                 ELSE frac_zeros(d.rem, q) + Mantissa
            f == frac_bits(d.rem, q, p + 1)
        IN  fl_round([int |-> ip,
                      frac |-> f.bits \o <<IF f.rem > 0 THEN 1 ELSE 0>>])

\* Round a double to the nearest integer, ties to even.
round_half_even(x) ==
    LET n == bits_int(x.int)
    IN  IF x.frac = <<>> \/ x.frac[1] = 0 THEN n
        ELSE IF ~all_zero(Tail(x.frac)) THEN n + 1
        ELSE n + (n % 2)

(***************************************************************************)
(* Epoch conversions                                                       *)
(***************************************************************************)

\* Offset of local time from UTC, in seconds: a naive datetime is local
\* time, and the expected values of the tests are those of UTC-3.
LocalUtcOffset == -10800

\* datetime.timestamp() of a naive datetime:
\* (local seconds - epoch) + microsecond / 1e6, in doubles.
timestamp(value) ==
    LET seconds == (toordinal(value) - ymd2ord(1970, 1, 1)) * 86400
                   + value.secs - LocalUtcOffset
        f == fl_div(int_bits(value.us), 1000000)
    IN  fl_round([int |-> int_bits(seconds + bits_int(f.int)),
                  frac |-> f.frac])

\* int(timestamp * 1000): the integer part, as a bit string.
date_to_int(value) == fl_mul(timestamp(value), 1000).int

\* datetime.fromtimestamp(t): the seconds are the integer part, the
\* microseconds the fraction times 1e6 rounded half to even.
fromtimestamp(t) ==
    LET us0   == round_half_even(fl_mul([int |-> <<>>, frac |-> t.frac],
                                       1000000))
        us    == IF us0 >= 1000000 THEN us0 - 1000000 ELSE us0
        secs  == bits_int(t.int) + (IF us0 >= 1000000 THEN 1 ELSE 0)
        local == secs + LocalUtcOffset
        ymd   == ord2ymd(ymd2ord(1970, 1, 1) + (local \div 86400))
    IN  [year |-> ymd.year, month |-> ymd.month, day |-> ymd.day,
         secs |-> local % 86400, us |-> us]

int_to_date(time_ms) == fromtimestamp(fl_div(time_ms, 1000))

\* Largest millisecond of the second that the instants range over.
MaxMillis == 29

Instants ==
    {[year |-> d[1], month |-> d[2], day |-> d[3], secs |-> s,
      us |-> 1000 * ms] :
        d \in {<<2004, 1, 10>>, <<2023, 5, 19>>},
        s \in {0, 38229},
        ms \in 0..MaxMillis}

EpochInputs == {[fn |-> "date_to_int", value |-> t] : t \in Instants}

InitEpoch ==
    /\ inp \in EpochInputs
    /\ op = "start"
    /\ out = <<>>
    /\ TimeitIdle

DateToInt ==
    /\ op = "start"
    /\ inp.fn = "date_to_int"
    /\ op' = "date_to_int"
    /\ out' = [time_ms |-> date_to_int(inp.value)]
    /\ UNCHANGED <<inp, timeit_vars>>

IntToDate ==
    /\ op = "date_to_int"
    /\ op' = "int_to_date"
    /\ out' = [time_ms |-> out.time_ms, date |-> int_to_date(out.time_ms)]
    /\ UNCHANGED <<inp, timeit_vars>>

NextEpoch ==
    \/ DateToInt
    \/ IntToDate

SpecEpoch == InitEpoch /\ [][NextEpoch]_vars

\* C7: int_to_date(date_to_int(t)) equals t for every instant t that is
\* representable at millisecond precision.
C7_RoundTrip ==
    op = "int_to_date" => out.date = inp.value

(***************************************************************************)
(* The timeit decorator                                                    *)
(***************************************************************************)

\* Largest repeat and number of a decorated function, and the deepest
\* nesting of decorated calls.
MaxRepeat == 2
MaxNumber == 2
MaxDepth == 2

\* The file argument: None, a writable text sink, or a sink whose write
\* fails (print raises).
Files == {"None", "sink", "closed_sink"}

Configs ==
    [repeat : -1..MaxRepeat, number : -1..MaxNumber, file : Files]

\* A wrapped callable that calls a decorated function itself calls one with
\* the default repeat and number.
NestedConfigs == [repeat : {1}, number : {1}, file : Files]

\* Arguments of a call, values the wrapped callable returns, and the
\* nanoseconds one invocation takes.
Args == {"x", "y"}
RetValues == {"a", "b"}
Elapsed == {1, 2}

SeqMin(q) == CHOOSE x \in {q[k] : k \in 1..Len(q)} : \A k \in 1..Len(q) : x <= q[k]

Top == frames[Len(frames)]

Pop == SubSeq(frames, 1, Len(frames) - 1)

SetTop(f) == [frames EXCEPT ![Len(frames)] = f]

\* The arguments func is invoked with: func(*args, **kwargs)
call_args(f) == f.args

finally_gc_always(f, flag) == TRUE

\* The finally clause: if gcold: gc.enable()
finally_gc(f, flag) == IF f.gcold THEN TRUE ELSE flag

\* The call of frame f ends: the finally clause runs and the call returns
\* value or raises exc.  The fields after `value` record what the call did.
Exit(f, outcome, exc, value, printed, best) ==
    /\ gc_enabled' = finally_gc(f, gc_enabled)
    /\ frames' = Pop
    /\ done' = [outcome |-> outcome, exc |-> exc, value |-> value,
                printed |-> printed, best |-> best, cfg |-> f.cfg,
                pre |-> f.pre, nested |-> f.nested,
                calls |-> f.calls, counts |-> f.counts,
                totals |-> f.totals, last |-> f.last,
                args_ok |-> f.args_ok, depth |-> Len(frames)]

NoBest == [num |-> 0, den |-> 0]

SeqMax(q) == CHOOSE x \in {q[k] : k \in 1..Len(q)} : \A k \in 1..Len(q) : x >= q[k]

best_of_max(f) == [num |-> SeqMax(f.trials), den |-> f.cfg.number]

\* best = min(trials) / number, as the fraction num / den
best_of(f) == [num |-> SeqMin(f.trials), den |-> f.cfg.number]

InitTimeit ==
    /\ inp = <<>>
    /\ op = "timeit"
    /\ out = <<>>
    /\ gc_enabled \in BOOLEAN
    /\ frames = <<>>
    /\ done = NoCall

\* _timeit(*args, **kwargs) is called, by the program or by a wrapped
\* callable that is running: gcold = gc.isenabled(); gc.disable();
\* trials = []; result = None.
Enter ==
    /\ op \in {"timeit", "timeit_called"}
    /\ \/ frames = <<>> /\ op = "timeit"
       \/ frames # <<>> /\ Top.pc = "in_func" /\ Len(frames) < MaxDepth
    /\ \E cfg \in (IF frames = <<>> THEN Configs ELSE NestedConfigs), a \in Args :
          frames' = Append(IF frames = <<>> THEN frames
                           ELSE SetTop([Top EXCEPT !.nested = TRUE]),
                           [cfg |-> cfg, args |-> a, gcold |-> gc_enabled,
                            pc |-> "loop", i |-> 0, j |-> 0, total |-> 0,
                            trials |-> <<>>, result |-> "None",
                            pre |-> gc_enabled, calls |-> 0,
                            counts |-> <<>>, totals |-> <<>>, sum |-> 0,
                            last |-> "None", args_ok |-> TRUE,
                            nested |-> FALSE])
    /\ gc_enabled' = FALSE
    /\ op' = "timeit_called"
    /\ done' = NoCall
    /\ UNCHANGED <<inp, out>>

\* One more call of the inner loop: start = tm.time_ns(); func(*args, **kwargs)
Invoke ==
    /\ frames # <<>>
    /\ Top.pc = "loop"
    /\ Top.i < Top.cfg.repeat
    /\ Top.j < Top.cfg.number
    /\ frames' = SetTop([Top EXCEPT !.pc = "in_func",
                                    !.args_ok = @ /\ call_args(Top) = Top.args])
    /\ done' = NoCall
    /\ UNCHANGED <<inp, op, out, gc_enabled>>

\* func returns v after dt nanoseconds: result = v; total += dt
FuncReturn ==
    /\ frames # <<>>
    /\ Top.pc = "in_func"
    /\ \E v \in RetValues, dt \in Elapsed :
          frames' = SetTop([Top EXCEPT !.pc = "loop", !.result = v,
                                       !.total = @ + dt, !.j = @ + 1,
                                       !.calls = @ + 1, !.last = v,
                                       !.sum = @ + dt])
    /\ done' = NoCall
    /\ UNCHANGED <<inp, op, out, gc_enabled>>

\* func raises: the exception leaves _timeit through the finally clause.
FuncRaise ==
    /\ frames # <<>>
    /\ Top.pc = "in_func"
    /\ Exit(Top, "raised", "Exception", "None", FALSE, NoBest)
    /\ UNCHANGED <<inp, op, out>>

\* The inner loop is over: trials.append(total)
EndTrial ==
    /\ frames # <<>>
    /\ Top.pc = "loop"
    /\ Top.i < Top.cfg.repeat
    /\ Top.j >= Top.cfg.number
    /\ frames' = SetTop([Top EXCEPT !.trials = Append(@, Top.total),
                                    !.i = @ + 1, !.j = 0, !.total = 0,
                                    !.counts = Append(@, Top.j),
                                    !.totals = Append(@, Top.sum),
                                    !.sum = 0])
    /\ done' = NoCall
    /\ UNCHANGED <<inp, op, out, gc_enabled>>

\* The outer loop is over: best = min(trials) / number, the message is
\* printed if file is set, and result is returned.  min of no trials raises
\* ValueError, number = 0 raises ZeroDivisionError and so does a failing
\* print its own exception.
Report ==
    /\ frames # <<>>
    /\ Top.pc = "loop"
    /\ Top.i >= Top.cfg.repeat
    /\ IF Top.trials = <<>>
       THEN Exit(Top, "raised", "ValueError", "None", FALSE, NoBest)
       ELSE IF Top.cfg.number = 0
       THEN Exit(Top, "raised", "ZeroDivisionError", "None", FALSE, NoBest)
       ELSE IF Top.cfg.file = "None"
       THEN Exit(Top, "returned", "None", Top.result, FALSE, best_of(Top))
       ELSE IF Top.cfg.file = "closed_sink"
       THEN Exit(Top, "raised", "ValueError", "None", FALSE, best_of(Top))
       ELSE Exit(Top, "returned", "None", Top.result, TRUE, best_of(Top))
    /\ UNCHANGED <<inp, op, out>>

NextTimeit ==
    \/ Enter
    \/ Invoke
    \/ FuncReturn
    \/ FuncRaise
    \/ EndTrial
    \/ Report

SpecTimeit == InitTimeit /\ [][NextTimeit]_vars

Finished == done.outcome # "none"

\* C8: while a decorated call measures, automatic garbage collection is
\* disabled, and when the call ends, by a return, by an exception of the
\* wrapped callable or by a failure of the report, the flag of the collector
\* has the value it had immediately before the call, nested calls included.
\* (The wrapped callable does not switch the collector itself.)
C8_GcRestored ==
    /\ frames # <<>> => ~gc_enabled
    /\ Finished => gc_enabled = done.pre

C8_Witness ==
    /\ Finished
    /\ frames = <<>>
    /\ done.nested
    /\ done.outcome = "raised"
    /\ done.pre
    /\ gc_enabled

\* C9 as stated: for any repeat and number, a decorated call invokes the
\* callable repeat x number times and always returns the value of the final
\* invocation.
C9_AlwaysReturnsLast ==
    Finished =>
        /\ done.outcome = "returned"
        /\ done.calls = done.cfg.repeat * done.cfg.number
        /\ done.value = done.last

\* C9, amended: every invocation gets the caller's arguments.  With
\* repeat >= 1 and number >= 1, a call that returns has invoked the callable
\* number times in each of repeat trials, has computed
\* min(trial totals) / number, has printed iff file is a sink, and returns
\* the value of the final invocation; it raises only when an invocation
\* raised (fewer than repeat x number invocations returned) or when the
\* print failed.  With repeat <= 0 it raises ValueError, with number = 0
\* ZeroDivisionError, and with number < 0 it returns None (unless the print
\* fails), in all three cases without invoking the callable.
C9_Timeit ==
    Finished =>
        LET c == done.cfg
        IN  /\ done.args_ok
            /\ (c.repeat >= 1 /\ c.number >= 1 /\ done.outcome = "returned") =>
                   /\ done.calls = c.repeat * c.number
                   /\ done.counts = [k \in 1..c.repeat |-> c.number]
                   /\ done.value = done.last
                   /\ done.value \in RetValues
                   /\ done.best = [num |-> SeqMin(done.totals),
                                   den |-> c.number]
                   /\ done.printed = (c.file = "sink")
            /\ (c.repeat >= 1 /\ c.number >= 1 /\ done.outcome = "raised") =>
                   \/ done.exc = "Exception"
                      /\ done.calls < c.repeat * c.number
                   \/ done.exc = "ValueError"
                      /\ c.file = "closed_sink"
                      /\ done.calls = c.repeat * c.number
            /\ c.repeat <= 0 =>
                   /\ done.outcome = "raised"
                   /\ done.exc = "ValueError"
                   /\ done.calls = 0
            /\ (c.repeat >= 1 /\ c.number = 0) =>
                   /\ done.outcome = "raised"
                   /\ done.exc = "ZeroDivisionError"
                   /\ done.calls = 0
            /\ (c.repeat >= 1 /\ c.number < 0) =>
                   /\ done.calls = 0
                   /\ IF c.file = "closed_sink"
                      THEN done.outcome = "raised" /\ done.exc = "ValueError"
                      ELSE done.outcome = "returned" /\ done.value = "None"

C9_Witness ==
    /\ Finished
    /\ done.cfg.repeat = 2
    /\ done.cfg.number = 2
    /\ done.cfg.file = "None"
    /\ done.outcome = "returned"
    /\ done.calls = 4
    /\ done.totals = <<4, 3>>
    /\ done.best = [num |-> 3, den |-> 2]
    /\ done.value = "b"
    /\ ~done.printed

(***************************************************************************)
(* String to datetime.  A string is a sequence of one-character strings;   *)
(* a format is a sequence of tokens, a directive such as "%Y" or one       *)
(* literal character.                                                      *)
(***************************************************************************)

LIST_DATE_FORMATS ==
    << <<"%Y", "-", "%m", "-", "%d", " ", "%H", ":", "%M", ":", "%S">>,
       <<"%Y", "-", "%m", "-", "%d">>,
       <<"%Y", "-", "%m", "-", "%d", "T", "%H", ":", "%M", ":", "%S", ".", "%f">>,
       <<"%Y", "-", "%m", "-", "%d", " ", "%H", ":", "%M", ":", "%S", ".", "%f">>,
       <<"%Y", "-", "%m", "-", "%d", "T", "%H", ":", "%M", ":", "%S", ".", "%f", "Z">>,
       <<"%Y", "-", "%m", "-", "%d", "T", "%H", ":", "%M", ":", "%S">> >>

Digit == {"0", "1", "2", "3", "4", "5", "6", "7", "8", "9"}

Digit19 == Digit \ {"0"}

Whitespace == {" "}

Directives == {"%Y", "%m", "%d", "%H", "%M", "%S", "%f"}

\* Length of the run of whitespace of s that starts at pos.
RECURSIVE space_run(_, _)
space_run(s, pos) ==
    IF pos <= Len(s) /\ s[pos] \in Whitespace
    THEN 1 + space_run(s, pos + 1)
    ELSE 0

\* The characters a literal of the format matches: the pattern is compiled
\* with IGNORECASE.
case_fold(c) ==
    IF c \in {"T", "t"} THEN {"T", "t"}
    ELSE IF c \in {"Z", "z"} THEN {"Z", "z"}
    ELSE {c}

\* The regular expression of a token: its alternatives in the order in which
\* they are tried, each a sequence of character classes.  Whitespace in the
\* format is \s+, tried longest first; %f is [0-9]{1,6}, longest first.
alternatives(token, s, pos) ==
    IF token = "%Y" THEN << <<Digit, Digit, Digit, Digit>> >>
    ELSE IF token = "%m"
    THEN << <<{"1"}, {"0", "1", "2"}>>, <<{"0"}, Digit19>>, <<Digit19>> >>
    ELSE IF token = "%d"
    THEN << <<{"3"}, {"0", "1"}>>, <<{"1", "2"}, Digit>>, <<{"0"}, Digit19>>,
            <<Digit19>>, <<{" "}, Digit19>> >>
    ELSE IF token = "%H"
    THEN << <<{"2"}, {"0", "1", "2", "3"}>>, <<{"0", "1"}, Digit>>, <<Digit>> >>
    ELSE IF token = "%M"
    THEN << <<{"0", "1", "2", "3", "4", "5"}, Digit>>, <<Digit>> >>
    ELSE IF token = "%S"
    THEN << <<{"6"}, {"0", "1"}>>, <<{"0", "1", "2", "3", "4", "5"}, Digit>>,
            <<Digit>> >>
    ELSE IF token = "%f"
    THEN [a \in 1..6 |-> [i \in 1..(7 - a) |-> Digit]]
    ELSE IF token \in Whitespace
    THEN LET n == space_run(s, pos)
         IN  [a \in 1..n |-> [i \in 1..(n + 1 - a) |-> Whitespace]]
    ELSE << <<case_fold(token)>> >>

\* The alternative alt matches s at pos.
alt_matches(alt, s, pos) ==
    /\ pos + Len(alt) - 1 <= Len(s)
    /\ \A i \in 1..Len(alt) : s[pos + i - 1] \in alt[i]

NoMatch == [ok |-> FALSE, end |-> 0, groups |-> <<>>]

\* Match the tokens k.. of fmt against s from pos, as a backtracking regular
\* expression does: the first alternative of token k after which the rest of
\* the format matches.  The result has the position after the match and the
\* text of each directive.
RECURSIVE re_match(_, _, _, _, _)
re_match(fmt, k, s, pos, a) ==
    IF k > Len(fmt) THEN [ok |-> TRUE, end |-> pos, groups |-> <<>>]
    ELSE
    LET alts == alternatives(fmt[k], s, pos)
    IN  IF a > Len(alts) THEN NoMatch
        ELSE IF alt_matches(alts[a], s, pos)
        THEN LET n    == Len(alts[a])
                 rest == re_match(fmt, k + 1, s, pos + n, 1)
             IN  IF rest.ok
                 THEN [ok |-> TRUE, end |-> rest.end,
                       groups |-> IF fmt[k] \in Directives
                                  THEN (fmt[k] :> SubSeq(s, pos, pos + n - 1))
                                       @@ rest.groups
                                  ELSE rest.groups]
                 ELSE re_match(fmt, k, s, pos, a + 1)
        ELSE re_match(fmt, k, s, pos, a + 1)

digit_value(c) ==
    CHOOSE v \in 0..9 :
        c = <<"0", "1", "2", "3", "4", "5", "6", "7", "8", "9">>[v + 1]

\* int(text): whitespace around the digits is ignored.
RECURSIVE int_of(_)
int_of(text) ==
    IF text = <<>> THEN 0
    ELSE IF text[Len(text)] \in Whitespace
    THEN int_of(SubSeq(text, 1, Len(text) - 1))
    ELSE 10 * int_of(SubSeq(text, 1, Len(text) - 1))
         + digit_value(text[Len(text)])

\* The fraction is padded with zeros on the right to six digits.
micros_of(text) == int_of(text \o [i \in 1..(6 - Len(text)) |-> "0"])

group_int(groups, name) ==
    IF name \in DOMAIN groups THEN int_of(groups[name]) ELSE 0

\* datetime.strptime(date_string, format)
strptime(date_string, format) ==
    LET found == re_match(format, 1, date_string, 1, 1)
    IN  IF ~found.ok
        THEN Raise("ValueError", "time data does not match format")
        ELSE IF found.end # Len(date_string) + 1
        THEN Raise("ValueError", "unconverted data remains")
        ELSE
        LET g      == found.groups
            second == group_int(g, "%S")
            day    == datetime_new(group_int(g, "%Y"), group_int(g, "%m"),
                                   group_int(g, "%d"))
        IN  IF day.raised THEN day
            ELSE IF second > 59
            THEN Raise("ValueError", "second must be in 0..59")
            ELSE Return([day.value EXCEPT
                            !.secs = group_int(g, "%H") * 3600
                                     + group_int(g, "%M") * 60 + second,
                            !.us = IF "%f" \in DOMAIN g
                                   THEN micros_of(g["%f"]) ELSE 0])

\* The value None, where a datetime is expected.
NoneValue == [none |-> TRUE]

RECURSIVE convert_loop(_, _)
convert_loop(date_str, k) ==
    IF k > Len(LIST_DATE_FORMATS) THEN Return(NoneValue)
    ELSE LET r == strptime(date_str, LIST_DATE_FORMATS[k])
         IN  IF ~r.raised THEN r
             ELSE IF r.exc = "ValueError" THEN convert_loop(date_str, k + 1)
             ELSE r

\* Only the first format is tried.
first_format_only(text) ==
    LET r == strptime(text, LIST_DATE_FORMATS[1])
    IN  IF r.raised THEN NoneValue ELSE r.value

convert_string_to_date_first_only(date_str) ==
    IF date_str.is_list
    THEN Return([i \in 1..Len(date_str.items) |->
                    first_format_only(date_str.items[i])])
    ELSE Return(first_format_only(date_str.text))

\* The argument is [is_list |-> FALSE, text |-> string] or
\* [is_list |-> TRUE, items |-> sequence of strings].
convert_string_to_date(date_str) ==
    IF date_str.is_list
    THEN LET rs == [i \in 1..Len(date_str.items) |->
                       convert_loop(date_str.items[i], 1)]
         IN  IF \E i \in 1..Len(rs) : rs[i].raised
             THEN rs[CHOOSE i \in 1..Len(rs) :
                        rs[i].raised /\ \A j \in 1..(i - 1) : ~rs[j].raised]
             ELSE Return([i \in 1..Len(rs) |-> rs[i].value])
    ELSE convert_loop(date_str.text, 1)

DateParts ==
    {<<"2", "0", "2", "3", "-", "0", "5", "-", "1", "9">>,
     <<"2", "0", "2", "3", "-", "5", "-", "9">>,
     <<"2", "0", "2", "3", "-", "0", "2", "-", "3", "0">>,
     <<"2", "0", "2", "4", "-", "0", "2", "-", "2", "9">>,
     <<"0", "0", "0", "0", "-", "0", "1", "-", "0", "1">>,
     <<"2", "0", "2", "3", "-", "1", "3", "-", "0", "1">>,
     <<"2", "0", "2", "3", "-", "0", "5", "-", " ", "9">>,
     <<"2", "0", "2", "3", "-", "0", "5", "-", "3", "1", "1">>,
     <<"2", "3", "-", "0", "5", "-", "1", "9">>,
     <<"2", "0", "2", "3", "/", "0", "5", "/", "1", "9">>}

TimeParts ==
    {<<>>,
     <<" ", "1", "2", ":", "3", "0", ":", "4", "5">>,
     <<"T", "1", "2", ":", "3", "0", ":", "4", "5">>,
     <<"t", "1", "2", ":", "3", "0", ":", "4", "5">>,
     <<" ", " ", "7", ":", "5", ":", "3">>,
     <<" ", "1", "2", ":", "3", "0", ":", "6", "1">>,
     <<" ", "2", "4", ":", "0", "0", ":", "0", "0">>,
     <<"T", "2", "3", ":", "5", "9", ":", "5", "9">>,
     <<" ", "1", "2", ":", "3", "0">>}

FracParts ==
    {<<>>,
     <<".", "5">>,
     <<".", "1", "2", "3", "4", "5", "6">>,
     <<".", "1", "2", "3", "4", "5", "6", "7">>,
     <<".">>}

ZoneParts ==
    {<<>>,
     <<"Z">>,
     <<"z">>}

OtherStrings ==
    {<<"n", "o", "t", "-", "a", "-", "d", "a", "t", "e">>,
     <<>>}

ListItems ==
    {<<"2", "0", "2", "3", "-", "0", "5", "-", "1", "9">>,
     <<"2", "0", "2", "3", "-", "0", "5", "-", "2", "0">>,
     <<"n", "o", "t", "-", "a", "-", "d", "a", "t", "e">>,
     <<"2", "0", "2", "3", "-", "0", "5", "-", "1", "9", "T", "1", "2", ":", "3", "0", ":", "4", "5", ".", "5", "Z">>}

\* Longest list of strings passed.
MaxListLen == 2

DateStrings ==
    {d \o t \o f \o z :
        d \in DateParts, t \in TimeParts, f \in FracParts, z \in ZoneParts}
    \cup OtherStrings

ParseInputs ==
    {[fn |-> "convert_string_to_date",
      date_str |-> [is_list |-> FALSE, text |-> s]] : s \in DateStrings}
    \cup
    {[fn |-> "convert_string_to_date",
      date_str |-> [is_list |-> TRUE, items |-> l]] :
        l \in UNION {[1..n -> ListItems] : n \in 0..MaxListLen}}

InitParse ==
    /\ inp \in ParseInputs
    /\ op = "start"
    /\ out = <<>>
    /\ TimeitIdle

ConvertStringToDate ==
    /\ op = "start"
    /\ inp.fn = "convert_string_to_date"
    /\ op' = "convert_string_to_date"
    /\ out' = convert_string_to_date(inp.date_str)
    /\ UNCHANGED <<inp, timeit_vars>>

NextParse == ConvertStringToDate

SpecParse == InitParse /\ [][NextParse]_vars

\* The formats that parse s, and the parse by the first of them (None when
\* there is none).
Matching(s) ==
    {k \in 1..Len(LIST_DATE_FORMATS) :
        ~strptime(s, LIST_DATE_FORMATS[k]).raised}

FirstParse(s) ==
    IF Matching(s) = {} THEN NoneValue
    ELSE LET k == CHOOSE i \in Matching(s) : \A j \in Matching(s) : i <= j
         IN  strptime(s, LIST_DATE_FORMATS[k]).value

\* C10: convert_string_to_date tries the six formats in their order and
\* returns the parse of the first that matches, None when none matches, and
\* never raises; for a list it returns the results of the elements, in
\* order, with None where an element does not parse.
C10_ConvertStringToDate ==
    op = "convert_string_to_date" =>
        /\ Len(LIST_DATE_FORMATS) = 6
        /\ ~out.raised
        /\ IF inp.date_str.is_list
           THEN /\ Len(out.value) = Len(inp.date_str.items)
                /\ \A i \in 1..Len(out.value) :
                       out.value[i] = FirstParse(inp.date_str.items[i])
           ELSE out.value = FirstParse(inp.date_str.text)

C10_Witness ==
    /\ op = "convert_string_to_date"
    /\ inp.date_str.is_list
    /\ Len(inp.date_str.items) = 2
    /\ ~out.raised
    /\ out.value[1] = [year |-> 2023, month |-> 5, day |-> 19,
                       secs |-> 45045, us |-> 500000]
    /\ out.value[2] = NoneValue

(***************************************************************************)
(* Durations                                                               *)
(***************************************************************************)

\* The argument of get_time is [is_int |-> TRUE, value |-> x] for an int and
\* [is_int |-> FALSE, value |-> x] for a float, x a record [int, frac].

\* The bits of hi * 1000000 + lo.
nanos(hi, lo) ==
    LET r == mul_bits(int_bits(hi), 1000000, lo)
    IN  strip_zeros(int_bits(r.carry) \o r.bits)

\* a < b for the bit strings of two integers without leading zeros
lt_bits(a, b) ==
    \/ Len(a) < Len(b)
    \/ /\ Len(a) = Len(b)
       /\ \E i \in 1..Len(a) :
              /\ a[i] < b[i]
              /\ \A j \in 1..(i - 1) : a[j] = b[j]

\* t < c for a number t and the bit string c of an integer: the fraction of
\* t does not count.
lt(t, c) == lt_bits(t.int, c)

\* x / 2^s: the binary point moves s places.
shift_right(x, s) ==
    IF Len(x.int) > s
    THEN [int  |-> SubSeq(x.int, 1, Len(x.int) - s),
          frac |-> SubSeq(x.int, Len(x.int) - s + 1, Len(x.int)) \o x.frac]
    ELSE [int  |-> <<>>,
          frac |-> [i \in 1..(s - Len(x.int)) |-> 0] \o x.int \o x.frac]

\* t / (odd * 2^exp2), correctly rounded.  The bits of t are those of an
\* integer Len(t.frac) places to the left, and a division by a power of two
\* only moves the point, so the rounding is that of the division by odd.
truediv(t, odd, exp2) ==
    shift_right(fl_div(strip_zeros(t.int \o t.frac), odd),
                Len(t.frac) + exp2)

\* round(x, 3) of a float, in thousandths: the exact value of the double,
\* rounded half to even at the third decimal.
round3(x) ==
    LET r   == mul_bits(x.int \o x.frac, 1000, 0)
        all == int_bits(r.carry) \o r.bits
        n   == Len(all) - Len(x.frac)
    IN  round_half_even([int  |-> strip_zeros(SubSeq(all, 1, n)),
                         frac |-> SubSeq(all, n + 1, Len(all))])

\* The decimal digits of n, as a sequence of characters.
RECURSIVE digits(_)
digits(n) ==
    LET d == <<"0", "1", "2", "3", "4", "5", "6", "7", "8", "9">>[(n % 10) + 1]
    IN  IF n < 10 THEN <<d>> ELSE digits(n \div 10) \o <<d>>

\* repr of the float that is m thousandths: the shortest decimal, with at
\* least one digit after the point.
repr_float(m) ==
    LET f == m % 1000
        three == digits(1000 + f)
        keep == IF f % 100 = 0 THEN 2 ELSE IF f % 10 = 0 THEN 3 ELSE 4
    IN  digits(m \div 1000) \o <<".">> \o SubSeq(three, 2, keep)

\* f"{round(x, 3)}{suffix}": round of an int is the int.
format(is_int, x, suffix) ==
    IF is_int
    THEN [thousandths |-> 1000 * bits_int(x.int), unit |-> suffix,
          text |-> digits(bits_int(x.int)) \o suffix]
    ELSE [thousandths |-> round3(x), unit |-> suffix,
          text |-> repr_float(round3(x)) \o suffix]

\* The first boundary taken as closed: 1000 still reports in nS.
get_time_closed(t) ==
    IF lt(t.value, nanos(0, 1001))
    THEN format(t.is_int, t.value, <<"n", "S">>)
    ELSE IF lt(t.value, nanos(1, 0))
    THEN format(FALSE, truediv(t.value, 125, 3), <<"u", "S">>)
    ELSE IF lt(t.value, nanos(1000, 0))
    THEN format(FALSE, truediv(t.value, 15625, 6), <<"m", "S">>)
    ELSE IF lt(t.value, nanos(60000, 0))
    THEN format(FALSE, truediv(t.value, 1953125, 9), <<"S">>)
    ELSE format(FALSE, truediv(t.value, 29296875, 11), <<"m", "i", "n">>)

\* The divisors are given as odd * 2^exp2: 1000 = 125 * 2^3,
\* 1000000 = 15625 * 2^6, 1000000000 = 1953125 * 2^9 and
\* 60000000000 = 29296875 * 2^11.
get_time(t) ==
    IF lt(t.value, nanos(0, 1000))
    THEN format(t.is_int, t.value, <<"n", "S">>)
    ELSE IF lt(t.value, nanos(1, 0))
    THEN format(FALSE, truediv(t.value, 125, 3), <<"u", "S">>)
    ELSE IF lt(t.value, nanos(1000, 0))
    THEN format(FALSE, truediv(t.value, 15625, 6), <<"m", "S">>)
    ELSE IF lt(t.value, nanos(60000, 0))
    THEN format(FALSE, truediv(t.value, 1953125, 9), <<"S">>)
    ELSE format(FALSE, truediv(t.value, 29296875, 11), <<"m", "i", "n">>)

\* How far from each anchor the nanosecond counts range.
MaxDelta == 2

\* Nanosecond counts hi * 1000000 + lo, written <<hi, lo>>: the values of
\* the tests, the boundaries between the units, and 1000 of each unit.
Anchors ==
    {<<0, 0>>, <<0, 500>>, <<0, 1000>>, <<0, 1500>>, <<1, 0>>, <<1, 500000>>,
     <<999, 999500>>, <<1000, 0>>, <<1500, 0>>, <<60000, 0>>,
     <<3600000, 0>>, <<60000000, 0>>}

Near(a) ==
    {<<a[1], a[2] + d>> : d \in 0..MaxDelta}
    \cup {<<a[1], a[2] - d>> : d \in {e \in 1..MaxDelta : e <= a[2]}}
    \cup {<<a[1] - 1, 1000000 + a[2] - d>> :
             d \in {e \in 1..MaxDelta : e > a[2] /\ a[1] > 0}}

NanoCounts == UNION {Near(a) : a \in Anchors}

\* Fractions of a nanosecond: none, 1/2 and 1 - 2^-11.
Fractions == {<<>>, <<1>>, [i \in 1..11 |-> 1]}

GetTimeInputs ==
    {[fn |-> "get_time",
      t |-> [is_int |-> TRUE,
             value |-> [int |-> nanos(c[1], c[2]), frac |-> <<>>]]] :
        c \in NanoCounts}
    \cup
    {[fn |-> "get_time",
      t |-> [is_int |-> FALSE,
             value |-> [int |-> nanos(p[1][1], p[1][2]), frac |-> p[2]]]] :
        p \in {q \in NanoCounts \X Fractions :
                  Len(nanos(q[1][1], q[1][2])) + Len(q[2]) <= Mantissa}}

InitDuration ==
    /\ inp \in GetTimeInputs
    /\ op = "start"
    /\ out = <<>>
    /\ TimeitIdle

GetTime ==
    /\ op = "start"
    /\ inp.fn = "get_time"
    /\ op' = "get_time"
    /\ out' = get_time(inp.t)
    /\ UNCHANGED <<inp, timeit_vars>>

NextDuration == GetTime

SpecDuration == InitDuration /\ [][NextDuration]_vars

\* t * 1000 / (odd * 2^exp2) without rounding: its integer part, and
\* whether that is all of it.
ScaledThousandths(t, odd, exp2) ==
    LET r   == mul_bits(t.int \o t.frac, 1000, 0)
        d   == long_div(int_bits(r.carry) \o r.bits, odd, 0)
        s   == Len(t.frac) + exp2
        n   == Len(d.quot) - s
    IN  [floor |-> IF n <= 0 THEN 0 ELSE bits_int(SubSeq(d.quot, 1, n)),
         exact |-> /\ d.rem = 0
                   /\ \A i \in 1..Len(d.quot) : i > n => d.quot[i] = 0]

\* The reported value is t over the unit, to the third decimal.
Reports(odd, exp2) ==
    LET e == ScaledThousandths(inp.t.value, odd, exp2)
    IN  \/ out.thousandths = e.floor
        \/ ~e.exact /\ out.thousandths = e.floor + 1

\* The unit whose half-open range holds t, and the value in that unit
UnitAndValue ==
    LET t == inp.t.value
    IN  IF lt(t, nanos(0, 1000))
        THEN out.unit = <<"n", "S">> /\ Reports(1, 0)
        ELSE IF lt(t, nanos(1, 0))
        THEN out.unit = <<"u", "S">> /\ Reports(125, 3)
        ELSE IF lt(t, nanos(1000, 0))
        THEN out.unit = <<"m", "S">> /\ Reports(15625, 6)
        ELSE IF lt(t, nanos(60000, 0))
        THEN out.unit = <<"S">> /\ Reports(1953125, 9)
        ELSE out.unit = <<"m", "i", "n">> /\ Reports(29296875, 11)

\* C11 as claimed: get_time picks the unit by half-open boundaries, reports
\* t scaled to it, and the reported value is below 1000 in every unit.
C11_GetTimeBelow1000 ==
    op = "get_time" =>
        /\ UnitAndValue
        /\ out.thousandths < 1000000

\* C11: get_time picks the unit by half-open boundaries (nS below 1000, uS
\* below 10^6, mS below 10^9, S below 6 * 10^10, min from there on) and
\* reports t scaled to it and rounded to three decimals.  The reported value
\* is at most 1000 in nS, uS and mS, where rounding up reaches 1000.0, at
\* least 1 in uS, mS, S and min, at most 60 in S, and has no upper limit in
\* min.
C11_GetTime ==
    op = "get_time" =>
        /\ UnitAndValue
        /\ out.unit \in {<<"n", "S">>, <<"u", "S">>, <<"m", "S">>} =>
               out.thousandths <= 1000000
        /\ out.unit # <<"n", "S">> => out.thousandths >= 1000
        /\ out.unit = <<"S">> => out.thousandths <= 60000

C11_Witness ==
    /\ op = "get_time"
    /\ inp.t.is_int
    /\ inp.t.value.int = nanos(999, 999999)
    /\ out.text = <<"1", "0", "0", "0", ".", "0", "m", "S">>

(***************************************************************************)
(* The stepping loops of get_prev_business_day and get_next_business_day,  *)
(* one iteration at a time.  op is the position in the function: "start",  *)
(* "loop" (at the test of the while), "returned" or "raised"; out holds    *)
(* new_value and the number of timedelta additions made so far.            *)
(***************************************************************************)

\* Friday taken for a day off as well.
loop_continues_fri(new_value) == weekday(new_value) > 3

\* while not is_bussines_day(new_value)
loop_continues(new_value) == ~is_bussines_day(new_value, NoHolidays)

\* timedelta(days=-1) or timedelta(days=1)
step_days(fn) == IF fn = "get_prev_business_day" THEN -1 ELSE 1

\* Number of days at each end of the range of datetime that inputs take.
MaxEdge == 6

EdgeDays ==
    {ord2ymd(1 + k) : k \in 0..MaxEdge}
    \cup {ord2ymd(ymd2ord(9999, 12, 31) - k) : k \in 0..MaxEdge}

StepInputs ==
    {[fn |-> f,
      value |-> [year |-> d.year, month |-> d.month, day |-> d.day,
                 secs |-> s, us |-> 0],
      keep |-> k] :
        f \in {"get_prev_business_day", "get_next_business_day"},
        d \in Days \cup EdgeDays, s \in TimesOfDay, k \in BOOLEAN}

InitStep ==
    /\ inp \in StepInputs
    /\ op = "start"
    /\ out = <<>>
    /\ TimeitIdle

\* The keep test and the first step
Begin ==
    /\ op = "start"
    /\ IF inp.keep /\ is_bussines_day(inp.value, NoHolidays)
       THEN /\ op' = "returned"
            /\ out' = [new_value |-> Return(inp.value), steps |-> 0]
       ELSE LET r == plus_timedelta(Return(inp.value), step_days(inp.fn))
            IN  /\ op' = IF r.raised THEN "raised" ELSE "loop"
                /\ out' = [new_value |-> r, steps |-> 1]
    /\ UNCHANGED <<inp, timeit_vars>>

\* An iteration of the while
LoopStep ==
    /\ op = "loop"
    /\ loop_continues(out.new_value.value)
    /\ LET r == plus_timedelta(out.new_value, step_days(inp.fn))
       IN  /\ op' = IF r.raised THEN "raised" ELSE "loop"
           /\ out' = [new_value |-> r, steps |-> out.steps + 1]
    /\ UNCHANGED <<inp, timeit_vars>>

\* The while ends and new_value is returned
LoopReturn ==
    /\ op = "loop"
    /\ ~loop_continues(out.new_value.value)
    /\ op' = "returned"
    /\ UNCHANGED <<inp, out, timeit_vars>>

NextStep ==
    \/ Begin
    \/ LoopStep
    \/ LoopReturn

\* The function is sequential code: it keeps running until it returns or
\* raises.
SpecStep == InitStep /\ [][NextStep]_vars /\ WF_vars(NextStep)

\* Calendar days between the input day and new_value
DaysAway ==
    LET d == toordinal(out.new_value.value) - toordinal(inp.value)
    IN  IF d < 0 THEN -d ELSE d

\* C12: for every input day and either value of keep, the stepping of
\* get_prev_business_day and of get_next_business_day ends, it is never
\* more than 3 calendar days away from the input day, and what it returns
\* is a business day; once at the while, it returns.
C12_SteppingLoop ==
    /\ <>(op \in {"returned", "raised"})
    /\ (op = "loop") ~> (op = "returned")
    /\ [](op \in {"loop", "returned"} =>
              /\ DaysAway <= 3
              /\ out.steps = DaysAway)
    /\ [](op = "returned" =>
              is_bussines_day(out.new_value.value, NoHolidays))

C12_Witness ==
    /\ op = "returned"
    /\ inp.fn = "get_prev_business_day"
    /\ ~inp.keep
    /\ weekday(inp.value) = 0
    /\ out.steps = 3
    /\ weekday(out.new_value.value) = 4

====
